---- MODULE Spec2Model ----
(***************************************************************************)
(* Model of the Public-Assets blog scripts:                                *)
(*   add_blog_from_url.py, add_blog_manual.py, add_blog_image.py           *)
(*                                                                         *)
(* Text that the code inspects character by character (titles, ids,        *)
(* categories, file names, dates) is a sequence of one-character strings.  *)
(* Text that the code only copies (excerpt, author, URL) is a string.      *)
(* A file's bytes are a natural number, 0 being the empty file.            *)
(***************************************************************************)
EXTENDS Integers, Sequences, FiniteSets, TLC

VARIABLES
    files,         \* post id -> (file name -> bytes): Blogs/allBlogs/<id>/<name>, blog.json aside
    blog_json,     \* post id -> content of Blogs/allBlogs/<id>/blog.json, where it exists
    index_exists,  \* whether Blogs/index.json exists
    index_data,    \* the list stored in Blogs/index.json
    last,          \* the script run that produced this state, its arguments and exit status
    runs,          \* number of script runs so far
    text,          \* slugify: the argument
    slug,          \* slugify: the value returned
    calls          \* slugify: number of applications to text so far

vars == <<files, blog_json, index_exists, index_data, last, runs, text, slug, calls>>

\* ------------------------------------------------------------------ bounds
MaxRuns == 3
MaxLen == 4
MaxCalls == 2

\* ------------------------------------------------------------ characters
UpperCase == <<"A","B","C","D","E","F","G","H","I","J","K","L","M",
               "N","O","P","Q","R","S","T","U","V","W","X","Y","Z">>
LowerCase == <<"a","b","c","d","e","f","g","h","i","j","k","l","m",
               "n","o","p","q","r","s","t","u","v","w","x","y","z">>
Digits == <<"0","1","2","3","4","5","6","7","8","9">>

Range(s) == {s[i] : i \in 1..Len(s)}

IndexOf(s, c) == CHOOSE i \in 1..Len(s) : s[i] = c

\* str.lower() on one character
LowerChar(c) == IF c \in Range(UpperCase) THEN LowerCase[IndexOf(UpperCase, c)] ELSE c

\* str.lower()
Lower(s) == [i \in 1..Len(s) |-> LowerChar(s[i])]

\* regex class \w: letters, digits and the underscore
IsWord(c) == c \in Range(UpperCase) \cup Range(LowerCase) \cup Range(Digits) \cup {"_"}

\* regex class \s
IsSpace(c) == c \in {" ", "\t", "\n"}

\* regex class [^\w\s-]
IsSpecial(c) == ~(IsWord(c) \/ IsSpace(c) \/ c = "-")

\* regex class [\s_-]
IsSeparator(c) == IsSpace(c) \/ c = "_" \/ c = "-"

\* ---------------------------------------------------------------- slugify
RECURSIVE RemoveSpecial(_)
\* re.sub(r'[^\w\s-]', '', s): scan left to right, drop each matching character
RemoveSpecial(s) ==
    IF s = <<>> THEN <<>>
    ELSE IF IsSpecial(Head(s)) THEN RemoveSpecial(Tail(s))
    ELSE <<Head(s)>> \o RemoveSpecial(Tail(s))

RECURSIVE SkipSeparators(_)
\* the rest of s after the longest prefix of [\s_-] characters
SkipSeparators(s) ==
    IF s # <<>> /\ IsSeparator(Head(s)) THEN SkipSeparators(Tail(s)) ELSE s

RECURSIVE CollapseSeparators(_)
\* re.sub(r'[\s_-]+', '-', s): each maximal run becomes one hyphen
CollapseSeparators(s) ==
    IF s = <<>> THEN <<>>
    ELSE IF IsSeparator(Head(s)) THEN <<"-">> \o CollapseSeparators(SkipSeparators(s))
    ELSE <<Head(s)>> \o CollapseSeparators(Tail(s))

RECURSIVE DropLeadingHyphens(_)
\* the alternative ^-+
DropLeadingHyphens(s) ==
    IF s # <<>> /\ Head(s) = "-" THEN DropLeadingHyphens(Tail(s)) ELSE s

RECURSIVE DropTrailingHyphens(_)
DropTrailingHyphens(s) ==
    IF s # <<>> /\ s[Len(s)] = "-" THEN DropTrailingHyphens(SubSeq(s, 1, Len(s) - 1)) ELSE s

\* re.sub(r'^-+|-+$', '', s); $ matches at the end and before a final newline
TrimHyphens(s) ==
    LET r == DropLeadingHyphens(s)
    IN  IF r # <<>> /\ r[Len(r)] = "\n"
        THEN DropTrailingHyphens(SubSeq(r, 1, Len(r) - 1)) \o <<"\n">>
        ELSE DropTrailingHyphens(r)

\* a slugify that trims the hyphens before it collapses the separators
slugify_trim_first(s) == CollapseSeparators(TrimHyphens(RemoveSpecial(Lower(s))))

\* a slugify that forgets the trailing alternative of the last substitution
slugify_no_trim(s) == DropLeadingHyphens(CollapseSeparators(RemoveSpecial(Lower(s))))

slugify(s) == TrimHyphens(CollapseSeparators(RemoveSpecial(Lower(s))))

\* ------------------------------------------------------------- file system
Empty == 0

NoFiles == [f \in {} |-> Empty]

EndsWith(s, suffix) ==
    /\ Len(s) >= Len(suffix)
    /\ SubSeq(s, Len(s) - Len(suffix) + 1, Len(s)) = suffix

DotSvg == <<".","s","v","g">>

\* the string "allBlogs/<blog_id>/<image_filename>"
RelativeImagePath(blog_id, image_filename) ==
    <<"a","l","l","B","l","o","g","s","/">> \o blog_id \o <<"/">> \o image_filename

RECURSIVE Basename(_)
\* os.path.basename: what follows the last "/"
Basename(path) ==
    IF \E i \in 1..Len(path) : path[i] = "/"
    THEN Basename(Tail(path))
    ELSE path

\* os.makedirs(blog_dir, exist_ok=True)
MakeDirs(fs, blog_id) ==
    IF blog_id \in DOMAIN fs THEN fs ELSE (blog_id :> NoFiles) @@ fs

\* open(<dir>/<name>, 'wb').write(bytes), and shutil.copy2's effect on the destination
WriteFile(fs, dir, name, bytes) == [fs EXCEPT ![dir] = (name :> bytes) @@ @]

\* the files os.walk(allBlogs) can meet first among those ending in .svg:
\* the order of directories and of files within one is the file system's
SvgFiles(fs) ==
    UNION {{<<dir, name>> : name \in {n \in DOMAIN fs[dir] : EndsWith(n, DotSvg)}} : dir \in DOMAIN fs}

\* with open(source,'rb') as src_file: with open(dest,'wb') as dest_file:
\*     dest_file.write(src_file.read())
\* the destination is created or truncated before the source is read
CopyImage(fs, source, dir, name) ==
    LET truncated == WriteFile(fs, dir, name, Empty)
        bytes == truncated[source[1]][source[2]]
    IN  WriteFile(truncated, dir, name, bytes)

Max(a, b) == IF a >= b THEN a ELSE b

Aws == <<"A","W","S">>

\* the dict written to blog.json; content stands for its length in characters
BlogJson(blog_data, blog_id, category, image_path) ==
    [id |-> blog_id,
     title |-> blog_data.title,
     excerpt |-> blog_data.excerpt,
     content |-> blog_data.content,
     author |-> blog_data.author,
     publishedDate |-> blog_data.publishedDate,
     readTime |-> Max(1, blog_data.content \div 1000),
     tags |-> <<category, Aws>>,
     mediumUrl |-> blog_data.mediumUrl,
     image |-> image_path,
     category |-> category]

\* an index entry that loses the source URL
IndexEntry_no_url(blog_data, blog_id, category, image_path) ==
    [id |-> blog_id,
     title |-> blog_data.title,
     excerpt |-> blog_data.excerpt,
     publishedDate |-> blog_data.publishedDate,
     coverImage |-> image_path,
     category |-> category,
     mediumUrl |-> ""]

\* the dict stored in index.json for one post
IndexEntry(blog_data, blog_id, category, image_path) ==
    [id |-> blog_id,
     title |-> blog_data.title,
     excerpt |-> blog_data.excerpt,
     publishedDate |-> blog_data.publishedDate,
     coverImage |-> image_path,
     category |-> category,
     mediumUrl |-> blog_data.mediumUrl]

\* ------------------------------------------------------------------ index
\* code point of a character that occurs in a date
CodePoint(c) == IF c = "-" THEN 45 ELSE 47 + IndexOf(Digits, c)

RECURSIVE StrLess(_, _)
\* Python's a < b on str: lexicographic by code point, a proper prefix is smaller
StrLess(a, b) ==
    IF b = <<>> THEN FALSE
    ELSE IF a = <<>> THEN TRUE
    ELSE IF Head(a) = Head(b) THEN StrLess(Tail(a), Tail(b))
    ELSE CodePoint(Head(a)) < CodePoint(Head(b))

HasId(index, blog_id) == \E i \in 1..Len(index) : index[i].id = blog_id

\* the position the loop "for i, entry in enumerate(index_data)" stops at
FirstWithId(index, blog_id) ==
    CHOOSE i \in 1..Len(index) :
        /\ index[i].id = blog_id
        /\ \A j \in 1..(i - 1) : index[j].id # blog_id

\* the entry the loop stops at, if any
EntryOf(index, blog_id) ==
    IF HasId(index, blog_id) THEN <<index[FirstWithId(index, blog_id)]>> ELSE <<>>

\* an upsert that leaves an entry it finds as it is
ReplaceOrAppend_keep_found(index, entry) ==
    IF HasId(index, entry.id) THEN index ELSE Append(index, entry)

\* an upsert that never looks for the id
ReplaceOrAppend_always_append(index, entry) == Append(index, entry)

\* for ... if entry.get('id') == blog_id: index_data[i] = {...}; break / else: append
ReplaceOrAppend(index, entry) ==
    IF HasId(index, entry.id)
    THEN [index EXCEPT ![FirstWithId(index, entry.id)] = entry]
    ELSE Append(index, entry)

\* x goes behind every entry whose date is not smaller than its own
InsertNewestFirst(sorted, x) ==
    LET ahead == Cardinality({i \in 1..Len(sorted) :
                     ~StrLess(sorted[i].publishedDate, x.publishedDate)})
    IN  SubSeq(sorted, 1, ahead) \o <<x>> \o SubSeq(sorted, ahead + 1, Len(sorted))

\* a sort that was left out
SortNewestFirst_none(index) == index

RECURSIVE SortNewestFirst(_)

\* index_data.sort(key=lambda x: x['publishedDate'], reverse=True): stable
SortNewestFirst(index) ==
    IF index = <<>> THEN <<>>
    ELSE InsertNewestFirst(SortNewestFirst(SubSeq(index, 1, Len(index) - 1)), index[Len(index)])

\* ----------------------------------------------------------------- inputs
Date1 == <<"2","0","2","3","-","1","2","-","3","1">>
Date2 == <<"2","0","2","4","-","0","1","-","0","1">>
Date3 == <<"2","0","2","4","-","0","6","-","0","1">>

Page1 == [title |-> <<"A">>, excerpt |-> "e1", content |-> 500, author |-> "x", publishedDate |-> Date2]
Page2 == [title |-> <<"b","!">>, excerpt |-> "e2", content |-> 2500, author |-> "y", publishedDate |-> Date3]
Page3 == [title |-> <<"A">>, excerpt |-> "e3", content |-> 3000, author |-> "y", publishedDate |-> Date3]
Page4 == [title |-> <<"b","!">>, excerpt |-> "e1", content |-> 500, author |-> "x", publishedDate |-> Date1]

\* what an author's answers provide, the id, category and URL aside
Pages == {Page1, Page2, Page3, Page4}

\* --url
Urls == {"u1", "u2"}

\* what extract_medium_info can extract from the page behind a URL
PagesAt(url) == IF url = "u1" THEN {Page1, Page2} ELSE {Page3, Page4}

\* the answer to "Medium URL"
UrlAnswers == {"u3"}

\* --id, or the answer to "Blog ID"; <<>> is no answer
IdArgs == {<<>>, <<"c">>}

\* --category, or the answer to "Category"; <<>> is no answer
CategoryArgs == {<<>>, <<"D","B","_","1">>}

\* files outside the Blogs tree: path -> bytes
ExternalFiles ==
    (<<"d","/","a","w","s",".","s","v","g">> :> 1) @@ (<<"d","/","p",".","p","n","g">> :> 2)

\* --image
ImageArgs == DOMAIN ExternalFiles \cup {<<"d","/","n","o",".","s","v","g">>}

\* --id of add_blog_image.py
ImageIdArgs == {<<"a">>, <<"b">>, <<"c">>}

\* the characters slugify is applied to
Alphabet == {"A", "b", "1", " ", "\n", "-", "_", "!"}

RECURSIVE StringsUpTo(_)
StringsUpTo(n) ==
    IF n = 0 THEN {<<>>}
    ELSE LET shorter == StringsUpTo(n - 1)
         IN  shorter \cup {Append(s, c) : s \in {t \in shorter : Len(t) = n - 1}, c \in Alphabet}

WithUrl(page, url) ==
    [title |-> page.title, content |-> page.content, author |-> page.author,
     publishedDate |-> page.publishedDate, excerpt |-> page.excerpt, mediumUrl |-> url]

\* ------------------------------------------------------------------- state
NoRun ==
    [op |-> "none", blog_id |-> <<>>, category |-> <<>>, blog_data |-> <<>>,
     image_path |-> <<>>, source |-> <<>>, previous |-> <<>>, exit |-> 0]

Init ==
    /\ files = [d \in {} |-> NoFiles]
    /\ blog_json = [d \in {} |-> NoFiles]
    /\ index_exists = FALSE
    /\ index_data = <<>>
    /\ last = NoRun
    /\ runs = 0
    /\ text = <<>>
    /\ slug = <<>>
    /\ calls = 0

\* ---------------------------------------------------------------- actions
\* create_blog_structure of add_blog_from_url.py and of add_blog_manual.py, whose
\* bodies agree once blog_id and category are resolved
CreateBlogStructure(op, blog_data, blog_id, category) ==
    LET blog_dirs == MakeDirs(files, blog_id)
        image_filename == slugify(category) \o DotSvg
        image_path == RelativeImagePath(blog_id, image_filename)
        loaded == IF index_exists THEN index_data ELSE <<>>
        entry == IndexEntry(blog_data, blog_id, category, image_path)
        found == SvgFiles(blog_dirs)
    IN  /\ \E source \in (IF found = {} THEN {<<>>} ELSE found) :
            /\ files' = IF source = <<>> THEN blog_dirs
                        ELSE CopyImage(blog_dirs, source, blog_id, image_filename)
            /\ last' = [op |-> op, blog_id |-> blog_id, category |-> category,
                        blog_data |-> <<blog_data>>, image_path |-> <<>>,
                        source |-> source, previous |-> EntryOf(loaded, blog_id), exit |-> 0]
        /\ blog_json' = (blog_id :> BlogJson(blog_data, blog_id, category, image_path)) @@ blog_json
        /\ index_data' = SortNewestFirst(ReplaceOrAppend(loaded, entry))
        /\ index_exists' = TRUE

\* get_user_input(prompt, default)
GetUserInput(answer, default) ==
    IF default # <<>> THEN (IF answer # <<>> THEN answer ELSE default) ELSE answer

\* add_blog_manual.py main()
ManualAdd ==
    /\ runs < MaxRuns
    /\ \E page \in Pages, id_answer \in IdArgs, category_answer \in CategoryArgs, url \in UrlAnswers :
          LET blog_id == GetUserInput(id_answer, slugify(page.title))
              category == GetUserInput(category_answer, Aws)
          IN  CreateBlogStructure("manual", WithUrl(page, url), blog_id, category)
    /\ runs' = runs + 1
    /\ UNCHANGED <<text, slug, calls>>

\* add_blog_from_url.py main(); fetched = <<>> is extract_medium_info returning None
UrlImport ==
    /\ runs < MaxRuns
    /\ \E url \in Urls, id_arg \in IdArgs, category_arg \in CategoryArgs :
          \E fetched \in {<<>>} \cup {<<WithUrl(page, url)>> : page \in PagesAt(url)} :
             IF fetched = <<>>
             THEN /\ last' = [NoRun EXCEPT !.op = "url", !.blog_id = id_arg,
                                           !.category = category_arg, !.exit = 1]
                  /\ UNCHANGED <<files, blog_json, index_exists, index_data>>
             ELSE LET blog_data == fetched[1]
                      blog_id == IF id_arg = <<>> THEN slugify(blog_data.title) ELSE id_arg
                      category == IF category_arg = <<>> THEN Aws ELSE category_arg
                  IN  CreateBlogStructure("url", blog_data, blog_id, category)
    /\ runs' = runs + 1
    /\ UNCHANGED <<text, slug, calls>>

\* an update that opens the destination before it looks for the image
UpdateBlogImage_opens_first(blog_id, image_path) ==
    IF blog_id \notin DOMAIN files
    THEN /\ last' = [NoRun EXCEPT !.op = "image", !.blog_id = blog_id,
                                  !.image_path = image_path, !.exit = 1]
         /\ UNCHANGED <<files, blog_json, index_exists, index_data>>
    ELSE IF image_path \notin DOMAIN ExternalFiles
    THEN /\ files' = WriteFile(files, blog_id, Basename(image_path), Empty)
         /\ last' = [NoRun EXCEPT !.op = "image", !.blog_id = blog_id,
                                  !.image_path = image_path, !.exit = 1]
         /\ UNCHANGED <<blog_json, index_exists, index_data>>
    ELSE LET image_filename == Basename(image_path)
             relative_image_path == RelativeImagePath(blog_id, image_filename)
             has_json == blog_id \in DOMAIN blog_json
             in_index == index_exists /\ HasId(index_data, blog_id)
         IN  /\ files' = WriteFile(files, blog_id, image_filename, ExternalFiles[image_path])
             /\ blog_json' = IF has_json
                             THEN [blog_json EXCEPT ![blog_id].image = relative_image_path]
                             ELSE blog_json
             /\ index_data' = IF in_index /\ has_json
                              THEN [index_data EXCEPT
                                      ![FirstWithId(index_data, blog_id)].coverImage = relative_image_path]
                              ELSE index_data
             /\ UNCHANGED index_exists
             /\ last' = [NoRun EXCEPT !.op = "image", !.blog_id = blog_id,
                                      !.image_path = image_path,
                                      !.previous = IF in_index THEN EntryOf(index_data, blog_id) ELSE <<>>,
                                      !.exit = IF in_index /\ ~has_json THEN 1 ELSE 0]

\* an update that sets coverImage on every index entry
UpdateBlogImage_every_entry(blog_id, image_path) ==
    IF blog_id \notin DOMAIN files \/ image_path \notin DOMAIN ExternalFiles
    THEN /\ last' = [NoRun EXCEPT !.op = "image", !.blog_id = blog_id,
                                  !.image_path = image_path, !.exit = 1]
         /\ UNCHANGED <<files, blog_json, index_exists, index_data>>
    ELSE LET image_filename == Basename(image_path)
             relative_image_path == RelativeImagePath(blog_id, image_filename)
             has_json == blog_id \in DOMAIN blog_json
             in_index == index_exists /\ HasId(index_data, blog_id)
         IN  /\ files' = WriteFile(files, blog_id, image_filename, ExternalFiles[image_path])
             /\ blog_json' = IF has_json
                             THEN [blog_json EXCEPT ![blog_id].image = relative_image_path]
                             ELSE blog_json
             /\ index_data' = IF in_index /\ has_json
                              THEN [i \in 1..Len(index_data) |->
                                      [index_data[i] EXCEPT !.coverImage = relative_image_path]]
                              ELSE index_data
             /\ UNCHANGED index_exists
             /\ last' = [NoRun EXCEPT !.op = "image", !.blog_id = blog_id,
                                      !.image_path = image_path,
                                      !.previous = IF in_index THEN EntryOf(index_data, blog_id) ELSE <<>>,
                                      !.exit = IF in_index /\ ~has_json THEN 1 ELSE 0]

\* update_blog_image(blog_id, image_path); its result False is exit status 1.
\* relative_image_path is bound only where blog.json exists: using it for an
\* index entry of a post without blog.json raises NameError, after the image
\* was copied and before index.json is rewritten
UpdateBlogImage(blog_id, image_path) ==
    IF blog_id \notin DOMAIN files \/ image_path \notin DOMAIN ExternalFiles
    THEN /\ last' = [NoRun EXCEPT !.op = "image", !.blog_id = blog_id,
                                  !.image_path = image_path, !.exit = 1]
         /\ UNCHANGED <<files, blog_json, index_exists, index_data>>
    ELSE LET image_filename == Basename(image_path)
             relative_image_path == RelativeImagePath(blog_id, image_filename)
             has_json == blog_id \in DOMAIN blog_json
             in_index == index_exists /\ HasId(index_data, blog_id)
         IN  /\ files' = WriteFile(files, blog_id, image_filename, ExternalFiles[image_path])
             /\ blog_json' = IF has_json
                             THEN [blog_json EXCEPT ![blog_id].image = relative_image_path]
                             ELSE blog_json
             /\ index_data' = IF in_index /\ has_json
                              THEN [index_data EXCEPT
                                      ![FirstWithId(index_data, blog_id)].coverImage = relative_image_path]
                              ELSE index_data
             /\ UNCHANGED index_exists
             /\ last' = [NoRun EXCEPT !.op = "image", !.blog_id = blog_id,
                                      !.image_path = image_path,
                                      !.previous = IF in_index THEN EntryOf(index_data, blog_id) ELSE <<>>,
                                      !.exit = IF in_index /\ ~has_json THEN 1 ELSE 0]

\* add_blog_image.py main()
AddImage ==
    /\ runs < MaxRuns
    /\ \E blog_id \in ImageIdArgs, image_path \in ImageArgs : UpdateBlogImage(blog_id, image_path)
    /\ runs' = runs + 1
    /\ UNCHANGED <<text, slug, calls>>

Next == ManualAdd \/ UrlImport \/ AddImage

Spec == Init /\ [][Next]_vars

\* ------------------------------------------------ slugify on its own inputs
SlugInit ==
    /\ files = [d \in {} |-> NoFiles]
    /\ blog_json = [d \in {} |-> NoFiles]
    /\ index_exists = FALSE
    /\ index_data = <<>>
    /\ last = NoRun
    /\ runs = 0
    /\ text \in StringsUpTo(MaxLen)
    /\ slug = <<>>
    /\ calls = 0

\* slug = slugify(text) first, slug = slugify(slug) from then on
Slugify ==
    /\ calls < MaxCalls
    /\ slug' = slugify(IF calls = 0 THEN text ELSE slug)
    /\ calls' = calls + 1
    /\ UNCHANGED <<files, blog_json, index_exists, index_data, last, runs, text>>

SlugNext == Slugify

SlugSpec == SlugInit /\ [][SlugNext]_vars

\* ----------------------------------------------------------------- claims
Upserted == last.op \in {"manual", "url"} /\ last.exit = 0

UpsertStep == last'.op \in {"manual", "url"} /\ last'.exit = 0

IdsOf(index) == [i \in 1..Len(index) |-> index[i].id]

\* the file name and the index entry the last upsert asked for
LastImageFilename == slugify(last.category) \o DotSvg

LastEntry ==
    LET d == last.blog_data[1]
    IN  [id |-> last.blog_id, title |-> d.title, excerpt |-> d.excerpt,
         publishedDate |-> d.publishedDate,
         coverImage |-> RelativeImagePath(last.blog_id, LastImageFilename),
         category |-> last.category, mediumUrl |-> d.mediumUrl]

NewestFirst(index) ==
    \A i \in 1..(Len(index) - 1) :
        ~StrLess(index[i].publishedDate, index[i + 1].publishedDate)

\* C1: after any sequence of upserts the index is sorted by publishedDate in
\* non-increasing order; upserting b dated 2024-06-01 into the index [a dated
\* 2024-01-01] yields the index [b, a]
C1_IndexNewestFirst ==
    /\ [](index_exists => NewestFirst(index_data))
    /\ [][(/\ IdsOf(index_data) = <<<<"a">>>>
           /\ index_data[1].publishedDate = Date2
           /\ UpsertStep
           /\ last'.blog_id = <<"b">>
           /\ last'.blog_data[1].publishedDate = Date3)
          => IdsOf(index_data') = << <<"b">>, <<"a">> >>]_vars

C1_Witness ==
    /\ Upserted
    /\ runs = 2
    /\ IdsOf(index_data) = << <<"b">>, <<"a">> >>
    /\ index_data[1].publishedDate = Date3
    /\ index_data[2].publishedDate = Date2

\* C2: the index never holds two entries with the same id
C2_OneEntryPerId ==
    \A i, j \in 1..Len(index_data) : index_data[i].id = index_data[j].id => i = j

C2_Witness ==
    /\ Upserted
    /\ last.previous # <<>>
    /\ Len(index_data) = 2

\* C3: an upsert repeated with the same record leaves the index as the first one
\* left it, and after every upsert the index holds exactly one entry for the
\* record's id, which carries the values of that upsert
C3_UpsertIdempotent ==
    /\ [](Upserted =>
            /\ Cardinality({i \in 1..Len(index_data) : index_data[i].id = last.blog_id}) = 1
            /\ \E i \in 1..Len(index_data) : index_data[i] = LastEntry)
    /\ [][(/\ Upserted
           /\ UpsertStep
           /\ last'.blog_id = last.blog_id
           /\ last'.category = last.category
           /\ last'.blog_data = last.blog_data)
          => index_data' = index_data]_vars

C3_Witness ==
    /\ Upserted
    /\ last.previous # <<>>
    /\ last.previous[1].publishedDate # LastEntry.publishedDate
    /\ last.previous[1].excerpt # LastEntry.excerpt
    /\ last.previous[1].category # LastEntry.category
    /\ last.previous[1].mediumUrl # LastEntry.mediumUrl
    /\ Len(index_data) = 2

\* C4: an upsert of an id the index does not hold makes the index one entry
\* longer, an upsert of an id it holds leaves its length unchanged
C4_UpsertLength ==
    [][UpsertStep =>
          Len(index_data') = IF HasId(index_data, last'.blog_id)
                             THEN Len(index_data)
                             ELSE Len(index_data) + 1]_vars

C4_Witness ==
    /\ Upserted
    /\ last.previous = <<>>
    /\ Len(index_data) = 3

\* C5: slugify(slugify(x)) = slugify(x): applying slugify to its own result
\* returns that result
C5_SlugifyIdempotent == [][calls >= 1 => slug' = slug]_vars

C5_Witness ==
    /\ calls = 2
    /\ Len(text) = MaxLen
    /\ slug # text
    /\ slug # <<>>

\* the four steps as the specification words them
IsLetterOrDigit(c) == c \in Range(UpperCase) \cup Range(LowerCase) \cup Range(Digits)

KeptAsStated(c) == IsLetterOrDigit(c) \/ c \in {" ", "\t", "\n"} \/ c = "-"

KeptWithUnderscore(c) == KeptAsStated(c) \/ c = "_"

RECURSIVE RunsToHyphen(_)
RunsToHyphen(s) ==
    IF s = <<>> THEN <<>>
    ELSE LET front == RunsToHyphen(SubSeq(s, 1, Len(s) - 1))
             c == s[Len(s)]
         IN  IF c \in {" ", "\t", "\n", "_", "-"}
             THEN (IF front # <<>> /\ front[Len(front)] = "-" THEN front ELSE Append(front, "-"))
             ELSE Append(front, c)

Trimmed(s) ==
    LET inner == {i \in 1..Len(s) : s[i] # "-"}
    IN  IF inner = {} THEN <<>>
        ELSE SubSeq(s, CHOOSE i \in inner : \A j \in inner : i <= j,
                       CHOOSE i \in inner : \A j \in inner : i >= j)

StepsAsStated(s) == Trimmed(RunsToHyphen(SelectSeq(Lower(s), KeptAsStated)))

StepsWithUnderscore(s) == Trimmed(RunsToHyphen(SelectSeq(Lower(s), KeptWithUnderscore)))

WellFormedSlug(s) ==
    /\ \A i \in 1..Len(s) : s[i] \in Range(LowerCase) \cup Range(Digits) \cup {"-"}
    /\ s # <<>> => s[1] # "-" /\ s[Len(s)] # "-"
    /\ \A i \in 1..(Len(s) - 1) : ~(s[i] = "-" /\ s[i + 1] = "-")

\* C6 as stated: slugify returns the four steps' result, the strip step
\* removing every character other than letters, digits, whitespace and hyphen,
\* the underscore included; the result is a well-formed slug
C6_AsStated == calls >= 1 => slug = StepsAsStated(text) /\ WellFormedSlug(slug)

\* C6 as amended: slugify returns the four steps' result, the strip step
\* keeping letters, digits, whitespace, hyphen and underscore, so that an
\* underscore reaches the collapse step and becomes part of a hyphen; the
\* result is a well-formed slug
C6_SlugifySteps == calls >= 1 => slug = StepsWithUnderscore(text) /\ WellFormedSlug(slug)

C6_Witness ==
    /\ calls = 1
    /\ text = <<"A", "_", "b", "!">>
    /\ slug = <<"a", "-", "b">>

DiskUnchanged == UNCHANGED <<files, blog_json, index_exists, index_data>>

\* C7: update_blog_image for a post directory or an image that does not exist,
\* and a URL import whose fetch fails, exit with status 1 and leave every file
\* as it was; so does every run that exits with a non-zero status
C7_FailureChangesNothing ==
    [][/\ (/\ last'.op = "image"
           /\ (last'.blog_id \notin DOMAIN files \/ last'.image_path \notin DOMAIN ExternalFiles))
          => (last'.exit = 1 /\ DiskUnchanged)
       /\ (last'.op = "url" /\ last'.blog_data = <<>>) => (last'.exit = 1 /\ DiskUnchanged)
       /\ last'.exit # 0 => DiskUnchanged]_vars

C7_Witness ==
    /\ last.op = "image"
    /\ last.exit = 1
    /\ last.blog_id \in DOMAIN files
    /\ last.image_path \notin DOMAIN ExternalFiles
    /\ index_exists

\* C8: when an SVG file exists under allBlogs before an upsert, after it the
\* file <post dir>/<slugify(category)>.svg exists and holds what the selected
\* source held before the upsert, also when the source is the destination
C8_PlaceholderCopied ==
    [][(UpsertStep /\ SvgFiles(files) # {}) =>
          LET name == slugify(last'.category) \o DotSvg
          IN  /\ last'.source \in SvgFiles(files)
              /\ name \in DOMAIN files'[last'.blog_id]
              /\ files'[last'.blog_id][name] = files[last'.source[1]][last'.source[2]]]_vars

\* C9: a successful image update of a post that an upsert created sets the
\* image of its blog.json and the coverImage of its index entry to
\* allBlogs/<id>/<basename>, and leaves every other field, entry and blog.json,
\* and the order and length of the index, as they were
C9_ImageUpdateFrame ==
    [][(/\ last'.op = "image"
        /\ last'.exit = 0
        /\ last'.blog_id \in DOMAIN blog_json
        /\ HasId(index_data, last'.blog_id))
       => LET id == last'.blog_id
              path == <<"a","l","l","B","l","o","g","s","/">> \o id \o <<"/">>
                         \o Basename(last'.image_path)
          IN  /\ DOMAIN blog_json' = DOMAIN blog_json
              /\ \A d \in DOMAIN blog_json :
                    blog_json'[d] = IF d = id THEN [blog_json[d] EXCEPT !.image = path]
                                    ELSE blog_json[d]
              /\ index_exists' = index_exists
              /\ Len(index_data') = Len(index_data)
              /\ \A i \in 1..Len(index_data) :
                    index_data'[i] = IF index_data[i].id = id
                                     THEN [index_data[i] EXCEPT !.coverImage = path]
                                     ELSE index_data[i]]_vars

C9_Witness ==
    /\ last.op = "image"
    /\ last.exit = 0
    /\ Len(index_data) = 2
    /\ last.previous # <<>>
    /\ \E i \in 1..2 : index_data[i].coverImage # last.previous[1].coverImage /\ index_data[i].id = last.blog_id

Projection(metadata) ==
    [id |-> metadata.id, title |-> metadata.title, excerpt |-> metadata.excerpt,
     publishedDate |-> metadata.publishedDate, coverImage |-> metadata.image,
     category |-> metadata.category, mediumUrl |-> metadata.mediumUrl]

\* C10: the ids of the index are the posts that hold a blog.json, and each
\* index entry is the projection of its post's blog.json
C10_IndexAgreesWithMetadata ==
    /\ Range(IdsOf(index_data)) = DOMAIN blog_json
    /\ \A i \in 1..Len(index_data) : index_data[i] = Projection(blog_json[index_data[i].id])

C10_Witness ==
    /\ last.op = "image"
    /\ last.exit = 0
    /\ Len(index_data) = 2
    /\ runs = MaxRuns

====
